---------------------------- MODULE Spec2Model ----------------------------
(***************************************************************************)
(* A model of parse_session.py: the session-log reporter that reads a      *)
(* JSONL file line by line, classifies every entry, accumulates the record *)
(* sequence, the tool-usage counter and the modified-files set, renders a  *)
(* markdown report and prints it.                                          *)
(*                                                                         *)
(* Representation.                                                         *)
(*  - A Python str whose characters the program looks at (texts, paths,    *)
(*    commands, timestamps) is a sequence of one-character strings.        *)
(*  - A decoded JSON value is a tagged record: Str, Name (a JSON string    *)
(*    the program only ever compares for equality: "type" and "name"       *)
(*    values), Num, List, Dict.  A Dict holds a TLA+ record, so dict.get   *)
(*    is a test on its DOMAIN.                                             *)
(*  - json.loads itself is not modelled character by character: an input   *)
(*    line either carries the JSON value it decodes to, or is undecodable. *)
(*  - An uncaught exception ends the run: traceback on standard error,     *)
(*    exit code 1, nothing more is executed.                               *)
(*  - The rendered markdown is a sequence of chunks, each a sequence of    *)
(*    pieces (literal text, a character sequence or a number), in the      *)
(*    order the f-strings concatenate them.                                *)
(*  - The field "src" of a record and of a chunk is a ghost: the input     *)
(*    line and content block it comes from.  The program never reads it.   *)
(***************************************************************************)
EXTENDS Integers, Sequences, FiniteSets, TLC

VARIABLES
    argc,            \* len(sys.argv)
    file,            \* the lines of the input file
    readable,        \* whether open(file_path, 'r') succeeds
    pc,              \* position of the run
    ln,              \* number of lines the for-loop has consumed
    blocks,          \* content blocks of the assistant entry being processed
    bi,              \* number of those blocks already processed
    events,          \* parse_jsonl: events
    tool_uses,       \* parse_jsonl: tool_uses, in insertion order
    files_modified,  \* parse_jsonl: files_modified
    markdown,        \* the value generate_markdown returned
    stdout,          \* what was written to standard output
    stderr,          \* what was written to standard error
    exitcode         \* <<>> while running, <<c>> once exited with code c

vars == <<argc, file, readable, pc, ln, blocks, bi, events, tool_uses,
          files_modified, markdown, stdout, stderr, exitcode>>

-----------------------------------------------------------------------------
(* Bounds of the model *)

MaxLines == 2

-----------------------------------------------------------------------------
(* Python str primitives *)

\* The single character U+2026 (the one in 'is running...' of line 43).
HorizontalEllipsis == "U+2026"

Whitespace == {" ", "\t", "\n", "\r"}

\* Code points of the characters whose order or digit value the program uses.
CodePoint ==
    ("+" :> 43) @@ ("-" :> 45) @@ ("." :> 46) @@ ("/" :> 47) @@
    ("0" :> 48) @@ ("1" :> 49) @@ ("2" :> 50) @@ ("3" :> 51) @@ ("4" :> 52) @@
    ("5" :> 53) @@ ("6" :> 54) @@ ("7" :> 55) @@ ("8" :> 56) @@ ("9" :> 57) @@
    (":" :> 58) @@ ("T" :> 84) @@ ("Z" :> 90) @@
    ("a" :> 97) @@ ("b" :> 98) @@ ("c" :> 99) @@ ("p" :> 112) @@
    ("t" :> 116) @@ ("x" :> 120) @@ ("y" :> 121)

Rep(c, n) == [i \in 1..n |-> c]

Drop(s, n) == SubSeq(s, n + 1, Len(s))

\* s.startswith(p)
StartsWith(s, p) == Len(p) <= Len(s) /\ SubSeq(s, 1, Len(p)) = p

\* the first index >= from at which old occurs in s, 0 if there is none
NextMatch(s, old, from) ==
    LET at == {i \in from..(Len(s) - Len(old) + 1) :
                 SubSeq(s, i, i + Len(old) - 1) = old}
    IN  IF at = {} THEN 0 ELSE CHOOSE i \in at : \A j \in at : i <= j

\* s.replace(old, new), old non-empty: the non-overlapping occurrences, left
\* to right (one recursion step per occurrence)
RECURSIVE ReplaceFrom(_, _, _, _)
ReplaceFrom(s, old, new, from) ==
    LET m == NextMatch(s, old, from)
    IN  IF m = 0 THEN SubSeq(s, from, Len(s))
        ELSE SubSeq(s, from, m - 1) \o new
             \o ReplaceFrom(s, old, new, m + Len(old))

Replace(s, old, new) == ReplaceFrom(s, old, new, 1)

\* s.strip()
Strip(s) ==
    LET keep == {i \in 1..Len(s) : s[i] \notin Whitespace}
    IN  IF keep = {} THEN <<>>
        ELSE SubSeq(s, CHOOSE i \in keep : \A j \in keep : i <= j,
                       CHOOSE i \in keep : \A j \in keep : j <= i)

\* s.split('/')[-1]
LastSegment(s) ==
    LET cut == {i \in 1..Len(s) : s[i] = "/"}
    IN  IF cut = {} THEN s
        ELSE Drop(s, CHOOSE i \in cut : \A j \in cut : j <= i)

\* s < t on str: lexicographic by code point
RECURSIVE StrLess(_, _)
StrLess(s, t) ==
    IF t = <<>> THEN FALSE
    ELSE IF s = <<>> THEN TRUE
    ELSE IF Head(s) = Head(t) THEN StrLess(Tail(s), Tail(t))
    ELSE CodePoint[Head(s)] < CodePoint[Head(t)]

-----------------------------------------------------------------------------
(* Decoded JSON values *)

Str(s)  == [t |-> "str", v |-> s]
Name(a) == [t |-> "str", id |-> a]
Num(n)  == [t |-> "num", v |-> n]
List(s) == [t |-> "list", v |-> s]
Dict(r) == [t |-> "dict", v |-> r]

EmptyDict == Dict(<<>>)
EmptyStr  == Str(<<>>)
EmptyList == List(<<>>)

IsDict(x) == x.t = "dict"
IsList(x) == x.t = "list"
IsStr(x)  == x.t = "str"
IsText(x) == x.t = "str" /\ "v" \in DOMAIN x

\* d.get(k, default) on a dict d
Get(d, k, default) == IF k \in DOMAIN d.v THEN d.v[k] ELSE default

\* bool(x)
Truthy(x) ==
    CASE IsText(x)    -> x.v /= <<>>
      [] IsStr(x)     -> x.id /= ""
      [] x.t = "num"  -> x.v /= 0
      [] OTHER        -> DOMAIN x.v /= {}

-----------------------------------------------------------------------------
(* parse_timestamp *)

IsDigit(c) == c \in DOMAIN CodePoint /\ CodePoint[c] >= 48 /\ CodePoint[c] <= 57

Digits(s, I) == \A i \in I : IsDigit(s[i])

\* the number written by the two digits s[i], s[i+1]
TwoDigits(s, i) == 10 * (CodePoint[s[i]] - 48) + (CodePoint[s[i + 1]] - 48)

FourDigits(s, i) == 100 * TwoDigits(s, i) + TwoDigits(s, i + 2)

DaysIn(y, m) ==
    IF m = 2
    THEN (IF y % 4 = 0 /\ (y % 100 /= 0 \/ y % 400 = 0) THEN 29 ELSE 28)
    ELSE IF m \in {4, 6, 9, 11} THEN 30 ELSE 31

\* what may follow the seconds: [.fff | .ffffff] [(+|-)HH:MM]
IsoTail(r) ==
    LET frac == IF r /= <<>> /\ r[1] = "."
                THEN (IF Len(r) >= 7 /\ Digits(r, 2..7) THEN 7
                      ELSE IF Len(r) >= 4 /\ Digits(r, 2..4) THEN 4
                      ELSE -1)
                ELSE 0
        off  == IF frac < 0 THEN <<>> ELSE Drop(r, frac)
    IN  /\ frac >= 0
        /\ \/ off = <<>>
           \/ /\ Len(off) = 6
              /\ off[1] \in {"+", "-"}
              /\ Digits(off, {2, 3, 5, 6})
              /\ off[4] = ":"
              /\ TwoDigits(off, 2) < 24
              /\ TwoDigits(off, 5) < 60

\* datetime.fromisoformat(s) accepts s: YYYY-MM-DD, one separator character,
\* HH:MM:SS and the tail (the full form; the shorter forms are not modelled)
IsIsoFormat(s) ==
    /\ Len(s) >= 19
    /\ Digits(s, {1, 2, 3, 4, 6, 7, 9, 10, 12, 13, 15, 16, 18, 19})
    /\ s[5] = "-" /\ s[8] = "-" /\ s[14] = ":" /\ s[17] = ":"
    /\ FourDigits(s, 1) >= 1
    /\ TwoDigits(s, 6) \in 1..12
    /\ TwoDigits(s, 9) >= 1
    /\ TwoDigits(s, 9) <= DaysIn(FourDigits(s, 1), TwoDigits(s, 6))
    /\ TwoDigits(s, 12) < 24
    /\ TwoDigits(s, 15) < 60
    /\ TwoDigits(s, 18) < 60
    /\ IsoTail(Drop(s, 19))

UtcOffset == <<"+", "0", "0", ":", "0", "0">>

\* ts_str.replace('Z', '+00:00')
ZReplaced(ts_str) == Replace(ts_str.v, <<"Z">>, UtcOffset)

\* parse_timestamp(ts_str) raises: ts_str is no str, or fromisoformat rejects it
parse_timestamp_raises(ts_str) ==
    ~IsText(ts_str) \/ ~IsIsoFormat(ZReplaced(ts_str))

\* dt.strftime('%H:%M:%S'): the hour, minute and second as written, the
\* offset is not applied
parse_timestamp(ts_str) == SubSeq(ZReplaced(ts_str), 12, 19)

-----------------------------------------------------------------------------
(* extract_message_text *)

CommandTags == <<
    <<"<", "c", "o", "m", "m", "a", "n", "d", "-", "m", "e", "s", "s", "a", "g", "e", ">">>,
    <<"<", "/", "c", "o", "m", "m", "a", "n", "d", "-", "m", "e", "s", "s", "a", "g", "e", ">">>,
    <<"<", "c", "o", "m", "m", "a", "n", "d", "-", "n", "a", "m", "e", ">">>,
    <<"<", "/", "c", "o", "m", "m", "a", "n", "d", "-", "n", "a", "m", "e", ">">>,
    <<"<", "c", "o", "m", "m", "a", "n", "d", "-", "a", "r", "g", "s", ">">>,
    <<"<", "/", "c", "o", "m", "m", "a", "n", "d", "-", "a", "r", "g", "s", ">">> >>

\* the six replace calls of lines 18-20, in order
RECURSIVE RemoveTags(_, _)
RemoveTags(text, k) ==
    IF k > Len(CommandTags) THEN text
    ELSE RemoveTags(Replace(text, CommandTags[k], <<>>), k + 1)

IsTextBlock(item) == IsDict(item) /\ Get(item, "type", Name("")) = Name("text")

\* the index of the first block the loop of lines 23-25 returns at, 0 if none
FirstTextBlock(content) ==
    LET hits == {i \in 1..Len(content.v) : IsTextBlock(content.v[i])}
    IN  IF hits = {} THEN 0 ELSE CHOOSE i \in hits : \A j \in hits : i <= j

\* item.get('text', '').strip() fails on a value that is no str
extract_message_text_raises(content) ==
    /\ IsList(content)
    /\ FirstTextBlock(content) > 0
    /\ ~IsText(Get(content.v[FirstTextBlock(content)], "text", EmptyStr))

extract_message_text(content) ==
    IF IsText(content) THEN Strip(RemoveTags(content.v, 1))
    ELSE IF IsList(content) /\ FirstTextBlock(content) > 0
    THEN Strip(Get(content.v[FirstTextBlock(content)], "text", EmptyStr).v)
    ELSE <<>>

-----------------------------------------------------------------------------
(* parse_jsonl: the accumulator and the handling of one entry *)

UserTextLimit == 100

IsRunning == <<"i", "s", " ", "r", "u", "n", "n", "i", "n", "g", HorizontalEllipsis>>

Dots == <<".", ".", ".">>

FileMutatingTools == {Name("Edit"), Name("Write"), Name("MultiEdit")}

\* events, tool_uses, files_modified as lines 30-32 create them; raised: an
\* exception left the function
Acc0 == [events |-> <<>>, tool_uses |-> <<>>, files_modified |-> {},
         raised |-> FALSE]

\* a variant of AppendEvent: events.insert(0, e)
AppendEvent_AtFront(evs, e) == <<e>> \o evs

\* events.append(e)
AppendEvent(evs, e) == Append(evs, e)

\* tool_uses[tool_name] (a defaultdict(int) that keeps insertion order)
CountOf(tu, tool_name) ==
    LET hits == {i \in 1..Len(tu) : tu[i].tool = tool_name}
    IN  IF hits = {} THEN 0 ELSE tu[CHOOSE i \in hits : TRUE].count

\* a variant of Increment: tool_uses[tool_name] = 1
Increment_Assign(tu, tool_name) ==
    IF \E i \in 1..Len(tu) : tu[i].tool = tool_name
    THEN tu
    ELSE Append(tu, [tool |-> tool_name, count |-> 1])

\* tool_uses[tool_name] += 1
Increment(tu, tool_name) ==
    IF \E i \in 1..Len(tu) : tu[i].tool = tool_name
    THEN [i \in 1..Len(tu) |->
            IF tu[i].tool = tool_name
            THEN [tool |-> tool_name, count |-> tu[i].count + 1]
            ELSE tu[i]]
    ELSE Append(tu, [tool |-> tool_name, count |-> 1])

\* a variant of TruncateUser: len(text) >= 100
TruncateUser_AtLimit(text) ==
    IF Len(text) >= UserTextLimit
    THEN SubSeq(text, 1, UserTextLimit) \o Dots
    ELSE text

\* text[:100] + '...' if len(text) > 100 else text
TruncateUser(text) ==
    IF Len(text) > UserTextLimit
    THEN SubSeq(text, 1, UserTextLimit) \o Dots
    ELSE text

\* a variant of UserEmits: the 'is running' filter is missing
UserEmits_NoFilter(text) == text /= <<>>

\* the guard of line 43
UserEmits(text) == text /= <<>> /\ ~StartsWith(text, IsRunning)

Raised(acc) == [acc EXCEPT !.raised = TRUE]

\* lines 41-48: an entry of type 'user'
UserStep(acc, event, src) ==
    LET message == Get(event, "message", EmptyDict)
        content == Get(message, "content", EmptyStr)
        text    == extract_message_text(content)
        ts      == Get(event, "timestamp", EmptyStr)
    IN  IF ~IsDict(message) THEN Raised(acc)
        ELSE IF extract_message_text_raises(content) THEN Raised(acc)
        ELSE IF ~UserEmits(text) THEN acc
        ELSE IF parse_timestamp_raises(ts) THEN Raised(acc)
        ELSE [acc EXCEPT !.events =
                AppendEvent(@, [time |-> parse_timestamp(ts), type |-> "user",
                                text |-> TruncateUser(text), src |-> src])]

\* a variant of ToolUseStep: events.append sits inside 'if file_path:', so
\* only a tracked modification is recorded
ToolUseStep_AppendInsideIf(acc, item, ts, src) ==
    LET tool_name == Get(item, "name", Name(""))
        counted   == [acc EXCEPT !.tool_uses = Increment(@, tool_name)]
        input     == Get(item, "input", EmptyDict)
        file_path == Get(input, "file_path", EmptyStr)
    IN  IF tool_name \in FileMutatingTools /\ ~IsDict(input)
        THEN Raised(counted)
        ELSE IF tool_name \in FileMutatingTools /\ Truthy(file_path)
        THEN (IF parse_timestamp_raises(ts)
              THEN Raised([counted EXCEPT !.files_modified = @ \cup {file_path}])
              ELSE [counted EXCEPT
                      !.files_modified = @ \cup {file_path},
                      !.events =
                         AppendEvent(@, [time |-> parse_timestamp(ts),
                                         type |-> "tool", tool |-> tool_name,
                                         details |-> input, src |-> src])])
        ELSE counted

\* lines 54-68: a block of type 'tool_use'
ToolUseStep(acc, item, ts, src) ==
    LET tool_name == Get(item, "name", Name(""))
        counted   == [acc EXCEPT !.tool_uses = Increment(@, tool_name)]
        input     == Get(item, "input", EmptyDict)
        file_path == Get(input, "file_path", EmptyStr)
        tracked   == IF tool_name \in FileMutatingTools /\ Truthy(file_path)
                     THEN [counted EXCEPT !.files_modified = @ \cup {file_path}]
                     ELSE counted
    IN  IF tool_name \in FileMutatingTools /\ ~IsDict(input)
        THEN Raised(counted)
        ELSE IF parse_timestamp_raises(ts) THEN Raised(tracked)
        ELSE [tracked EXCEPT !.events =
                AppendEvent(@, [time |-> parse_timestamp(ts), type |-> "tool",
                                tool |-> tool_name, details |-> input,
                                src |-> src])]

\* lines 69-76: a block of type 'text'
TextStep(acc, item, ts, src) ==
    LET raw  == Get(item, "text", EmptyStr)
        text == Strip(raw.v)
    IN  IF ~IsText(raw) THEN Raised(acc)
        ELSE IF text = <<>> THEN acc
        ELSE IF parse_timestamp_raises(ts) THEN Raised(acc)
        ELSE [acc EXCEPT !.events =
                AppendEvent(@, [time |-> parse_timestamp(ts),
                                type |-> "assistant", text |-> text,
                                src |-> src])]

IsToolUse(item) == IsDict(item) /\ Get(item, "type", Name("")) = Name("tool_use")

\* lines 53-76: one iteration of the loop over the content blocks
BlockStep(acc, item, ts, src) ==
    IF ~IsDict(item) THEN Raised(acc)
    ELSE IF IsToolUse(item) THEN ToolUseStep(acc, item, ts, src)
    ELSE IF IsTextBlock(item) THEN TextStep(acc, item, ts, src)
    ELSE acc

\* line 51-52: the blocks the loop of an 'assistant' entry runs over
ContentBlocks(event) ==
    LET content == Get(Get(event, "message", EmptyDict), "content", EmptyList)
    IN  IF IsList(content) THEN content.v ELSE <<>>

EntryType(event) == Get(event, "type", Name(""))

-----------------------------------------------------------------------------
(* generate_markdown *)
(* Characters outside ASCII, and the backquote, are written U+XXXX in the  *)
(* literals.                                                               *)

AssistantTextLimit == 200

CommandLimit == 80

Lit(s) == [lit |-> s]
Chr(s) == [chr |-> s]
Number(n) == [num |-> n]
Tool(x) == [tool |-> x]

Chunk(sec, src, text) == [sec |-> sec, src |-> src, text |-> text]

NoSrc == <<0, 0>>

\* line 86
NoEventsReport ==
    <<Chunk("none", NoSrc, <<Lit("No events found in session.")>>)>>

\* lines 92-103
Header(start_time, end_time) ==
    <<Chunk("header", NoSrc,
        <<Lit("# Claude Session Summary\n\n**Date**: July 27, 2025\n**Duration**: "),
          Chr(start_time), Lit(" - "), Chr(end_time),
          Lit("\n\n## Session Overview\n\nThis session focused on redesigning Patina's session management system.\n\n## Timeline\n\n")>>)>>

\* lines 111-116
AssistantPreview(text) ==
    IF Len(text) > AssistantTextLimit
    THEN <<Chr(SubSeq(text, 1, AssistantTextLimit) \o Dots)>>
    ELSE <<Chr(text)>>

\* line 120
BashLine(cmd) ==
    IF Len(cmd) > CommandLimit
    THEN <<Lit("- U+1F527 Executed: U+0060"), Chr(SubSeq(cmd, 1, CommandLimit)),
           Lit("...U+0060\n")>>
    ELSE <<Lit("- U+1F527 Executed: U+0060"), Chr(cmd), Lit("U+0060\n")>>

\* the tools whose timeline line reads a field of the details
RenderedTools ==
    FileMutatingTools \cup {Name("Bash"), Name("Read"), Name("Grep")}

\* lines 117-129 fail: details is no mapping, a path is no str (no split),
\* a command is a number (no len)
EventRaises(event) ==
    /\ event.type = "tool"
    /\ event.tool \in RenderedTools
    /\ \/ ~IsDict(event.details)
       \/ /\ event.tool = Name("Bash")
          /\ Get(event.details, "command", EmptyStr).t = "num"
       \/ /\ event.tool \in FileMutatingTools \cup {Name("Read")}
          /\ ~IsText(Get(event.details, "file_path", EmptyStr))

\* lines 107-129: the timeline lines of one record (one or none)
TimelineOf(event) ==
    IF event.type = "user"
    THEN <<Chunk("timeline", event.src,
             <<Lit("\n### ["), Chr(event.time), Lit("] User\n> "),
               Chr(event.text), Lit("\n")>>)>>
    ELSE IF event.type = "assistant"
    THEN <<Chunk("timeline", event.src,
             <<Lit("\n**Claude**: ")>> \o AssistantPreview(event.text)
               \o <<Lit("\n")>>)>>
    ELSE IF event.tool = Name("Bash")
    THEN <<Chunk("timeline", event.src,
             BashLine(Get(event.details, "command", EmptyStr).v))>>
    ELSE IF event.tool \in FileMutatingTools
    THEN <<Chunk("timeline", event.src,
             <<Lit("- U+1F4DD Modified: U+0060"),
               Chr(LastSegment(Get(event.details, "file_path", EmptyStr).v)),
               Lit("U+0060\n")>>)>>
    ELSE IF event.tool = Name("Read")
    THEN <<Chunk("timeline", event.src,
             <<Lit("- U+1F441 U+FE0F Read: U+0060"),
               Chr(LastSegment(Get(event.details, "file_path", EmptyStr).v)),
               Lit("U+0060\n")>>)>>
    ELSE IF event.tool = Name("Grep")
    THEN <<Chunk("timeline", event.src,
             <<Lit("- U+1F50D Searched for: U+0060"),
               Chr(Get(event.details, "pattern", EmptyStr).v), Lit("U+0060\n")>>)>>
    ELSE <<>>

\* the loop of line 106, in the order of events
RECURSIVE Timeline(_)
Timeline(evs) ==
    IF evs = <<>> THEN <<>> ELSE TimelineOf(Head(evs)) \o Timeline(Tail(evs))

\* sorted(tool_uses.items(), key=lambda x: x[1], reverse=True): by descending
\* count, equal counts in insertion order (the sort is stable)
RECURSIVE SortedByCount(_)
SortedByCount(tu) ==
    IF tu = <<>> THEN <<>>
    ELSE LET top == CHOOSE i \in 1..Len(tu) :
                      /\ \A j \in 1..Len(tu) : tu[j].count <= tu[i].count
                      /\ \A j \in 1..(i - 1) : tu[j].count < tu[i].count
         IN  <<tu[top]>> \o
             SortedByCount(SubSeq(tu, 1, top - 1) \o Drop(tu, top))

\* a variant of SortedPaths: the paths in descending order
RECURSIVE SortedPaths_Descending(_)
SortedPaths_Descending(paths) ==
    IF paths = {} THEN <<>>
    ELSE LET most == CHOOSE p \in paths :
                       \A q \in paths \ {p} : StrLess(q.v, p.v)
         IN  <<most>> \o SortedPaths_Descending(paths \ {most})

\* sorted(files_modified)
RECURSIVE SortedPaths(_)
SortedPaths(paths) ==
    IF paths = {} THEN <<>>
    ELSE LET least == CHOOSE p \in paths :
                        \A q \in paths \ {p} : StrLess(p.v, q.v)
         IN  <<least>> \o SortedPaths(paths \ {least})

\* lines 132-137
Statistics(evs, tu, fm) ==
    <<Chunk("stats", NoSrc,
        <<Lit("\n## Session Statistics\n\n"),
          Lit("- **Total interactions**: "),
          Number(Cardinality({i \in 1..Len(evs) : evs[i].type = "user"})),
          Lit("\n"),
          Lit("- **Files modified**: "), Number(Cardinality(fm)), Lit("\n"),
          Lit("\n### Tool Usage:\n")>>)>>
    \o [i \in 1..Len(tu) |->
          Chunk("usage", NoSrc,
            <<Lit("- "), Tool(SortedByCount(tu)[i].tool), Lit(": "),
              Number(SortedByCount(tu)[i].count), Lit(" times\n")>>)]

\* lines 140-143
FilesSection(fm) ==
    IF fm = {} THEN <<>>
    ELSE <<Chunk("files", NoSrc, <<Lit("\n## Files Modified\n\n")>>)>>
         \o [i \in 1..Cardinality(fm) |->
               Chunk("file", NoSrc,
                 <<Lit("- U+0060"), Chr(SortedPaths(fm)[i].v), Lit("U+0060\n")>>)]

generate_markdown_raises(evs) ==
    \E i \in 1..Len(evs) : EventRaises(evs[i])

\* a variant of generate_markdown: no early return for an empty sequence, only
\* the header and the timeline are skipped
generate_markdown_NoEarlyReturn(evs, tu, fm) ==
    (IF evs = <<>> THEN <<>>
     ELSE Header(evs[1].time, evs[Len(evs)].time) \o Timeline(evs))
    \o Statistics(evs, tu, fm) \o FilesSection(fm)

generate_markdown(evs, tu, fm) ==
    IF evs = <<>> THEN NoEventsReport
    ELSE Header(evs[1].time, evs[Len(evs)].time)
         \o Timeline(evs) \o Statistics(evs, tu, fm) \o FilesSection(fm)

-----------------------------------------------------------------------------
(* The inputs: command lines and files *)

TsTen      == Str(<<"2", "0", "2", "5", "-", "0", "7", "-", "2", "7", "T", "1", "0", ":", "0", "0", ":", "0", "0", "Z">>)
TsEarlier  == Str(<<"2", "0", "2", "5", "-", "0", "7", "-", "2", "7", "T", "0", "9", ":", "5", "9", ":", "5", "8", ".", "1", "2", "3", "Z">>)
TsBad      == Str(<<"y", "e", "s", "t", "e", "r", "d", "a", "y">>)

PathC   == Str(<<"/", "a", "/", "b", "/", "c", ".", "t", "x", "t">>)
PathPy  == Str(<<"/", "a", "/", "b", ".", "p", "y">>)
PathAc  == Str(<<"/", "a", "/", "c">>)

User(ts, content) ==
    Dict([type |-> Name("user"), timestamp |-> ts,
          message |-> Dict([content |-> content])])

Assistant(ts, content) ==
    Dict([type |-> Name("assistant"), timestamp |-> ts,
          message |-> Dict([content |-> content])])

TextBlock(text) == Dict([type |-> Name("text"), text |-> text])

ToolUse(name, input) ==
    Dict([type |-> Name("tool_use"), name |-> Name(name), input |-> Dict(input)])

Thinking == Dict([type |-> Name("thinking")])

UserEntries == {
    User(TsTen, Str(<<" ", " ", "h", "e", "l", "l", "o", " ", " ">>)),
    User(TsTen, Str(<<"i", "s", " ", "r", "u", "n", "n", "i", "n", "g", HorizontalEllipsis, " ", "f", "o", "o">>)),
    User(TsEarlier, Str(<<"<", "c", "o", "m", "m", "a", "n", "d", "-", "n", "a", "m", "e", ">", "/", "i", "n", "i", "t", "<", "/", "c", "o", "m", "m", "a", "n", "d", "-", "n", "a", "m", "e", ">">>)),
    User(TsEarlier, List(<<Dict([type |-> Name("tool_result")]),
                           TextBlock(Str(<<" ", " ">>)),
                           TextBlock(Str(<<" ", " ", "h", "e", "l", "l", "o", " ", " ">>))>>)),
    User(TsTen, List(<<Num(1), TextBlock(Str(<<" ", "i", "s", " ", "r", "u", "n", "n", "i", "n", "g", HorizontalEllipsis, " ", "x">>))>>)),
    User(TsEarlier, List(<<TextBlock(Str(<<" ", " ", "h", "e", "l", "l", "o", " ", " ">>)),
                           TextBlock(Str(<<"/", "a", "/", "c">>))>>)),
    User(TsTen, Str(Rep("a", 100))),
    User(TsEarlier, Str(Rep("a", 101))),
    User(TsBad, Str(<<" ", "\n">>)),
    User(TsBad, Str(<<" ", " ", "h", "e", "l", "l", "o", " ", " ">>)),
    User(TsTen, List(<<TextBlock(Num(7))>>)),
    Dict([type |-> Name("user"),
          message |-> Dict([content |-> Str(<<" ", " ", "h", "e", "l", "l", "o", " ", " ">>)])]),
    Dict([type |-> Name("user")]) }

AssistantEntries == {
    Assistant(TsTen, List(<<ToolUse("Write", [file_path |-> PathC])>>)),
    Assistant(TsEarlier, List(<<TextBlock(Str(<<" ", "o", "k", " ">>)),
                                ToolUse("Edit", [file_path |-> PathC]),
                                ToolUse("MultiEdit", [file_path |-> PathPy]),
                                ToolUse("Bash", [command |-> Str(<<"l", "s", " ", "-", "l", "a">>)])>>)),
    Assistant(TsTen, List(<<TextBlock(Str(Rep("a", 201))),
                            ToolUse("Bash", [command |-> Str(Rep("x", 80))])>>)),
    Assistant(TsEarlier, List(<<TextBlock(Str(Rep("a", 200))),
                                ToolUse("Bash", [command |-> Str(Rep("x", 81))])>>)),
    Assistant(TsTen, List(<<Dict([type |-> Name("tool_use"), name |-> Name("Write")]),
                            ToolUse("Edit", [file_path |-> EmptyStr]),
                            ToolUse("Read", [file_path |-> PathPy]),
                            ToolUse("Grep", [pattern |-> Str(<<"T", "O", "D", "O">>)]),
                            ToolUse("Task", [prompt |-> Str(<<" ", "o", "k", " ">>)]),
                            Dict([type |-> Name("tool_use")]),
                            Thinking,
                            TextBlock(Str(<<" ", " ">>))>>)),
    Assistant(TsEarlier, List(<<ToolUse("Edit", [file_path |-> PathAc]),
                                ToolUse("Write", [file_path |-> PathPy])>>)),
    Assistant(TsTen, Str(<<" ", "o", "k", " ">>)),
    Assistant(TsBad, List(<<ToolUse("Edit", [file_path |-> PathAc])>>)),
    Assistant(TsBad, List(<<Thinking, TextBlock(Str(<<" ", " ">>))>>)),
    Assistant(TsTen, List(<<Num(3)>>)),
    Assistant(TsTen, List(<<ToolUse("Read", [file_path |-> Num(7)])>>)) }

OtherEntries == {
    Dict([type |-> Name("summary"), timestamp |-> TsTen]),
    EmptyDict,
    Num(42) }

\* lines json.loads rejects: a blank line, a cut-off object
UndecodableLines == {[bad |-> "\n"], [bad |-> "{\"type\": \"user\""]}

Lines ==
    {[json |-> e] : e \in UserEntries \cup AssistantEntries \cup OtherEntries}
    \cup UndecodableLines

Files == UNION {[1..n -> Lines] : n \in 0..MaxLines}

\* json.loads(line) returns
JsonDecodes(line) == "json" \in DOMAIN line

-----------------------------------------------------------------------------
(* The run *)

UsageText ==
    <<Chunk("usage", NoSrc, <<Lit("Usage: python parse_session.py <jsonl_file>")>>)>>

EndOfLine == <<Chunk("eol", NoSrc, <<Lit("\n")>>)>>

Traceback == <<Chunk("traceback", NoSrc, <<Lit("Traceback (most recent call last):")>>)>>

\* print(x): x, then the line end, to standard output
WriteLine(out, x) == out \o <<x, EndOfLine>>

Init ==
    /\ argc \in 1..3
    /\ file \in Files
    /\ readable \in BOOLEAN
    /\ pc = "main"
    /\ ln = 0
    /\ blocks = <<>>
    /\ bi = 0
    /\ events = Acc0.events
    /\ tool_uses = Acc0.tool_uses
    /\ files_modified = Acc0.files_modified
    /\ markdown = <<>>
    /\ stdout = <<>>
    /\ stderr = <<>>
    /\ exitcode = <<>>

\* an exception nothing catches: the traceback, exit code 1
Uncaught ==
    /\ pc' = "exited"
    /\ stderr' = Append(stderr, Traceback)
    /\ exitcode' = <<1>>

Acc == [events |-> events, tool_uses |-> tool_uses,
        files_modified |-> files_modified, raised |-> FALSE]

Store(acc) ==
    /\ events' = acc.events
    /\ tool_uses' = acc.tool_uses
    /\ files_modified' = acc.files_modified

\* lines 148-150
Usage ==
    /\ pc = "main"
    /\ argc /= 2
    /\ stdout' = WriteLine(stdout, UsageText)
    /\ exitcode' = <<1>>
    /\ pc' = "exited"
    /\ UNCHANGED <<argc, file, readable, ln, blocks, bi, events, tool_uses,
                   files_modified, markdown, stderr>>

\* lines 152, 30-34
OpenFile ==
    /\ pc = "main"
    /\ argc = 2
    /\ IF readable
       THEN pc' = "lines" /\ UNCHANGED <<stderr, exitcode>>
       ELSE Uncaught
    /\ UNCHANGED <<argc, file, readable, ln, blocks, bi, events, tool_uses,
                   files_modified, markdown, stdout>>

AtLine == pc = "lines" /\ ln < Len(file)

\* a variant of SkipLine: the handler leaves the loop (break for continue)
SkipLine_Break ==
    /\ AtLine
    /\ ~JsonDecodes(file[ln + 1])
    /\ ln' = Len(file)
    /\ UNCHANGED <<argc, file, readable, pc, blocks, bi, events, tool_uses,
                   files_modified, markdown, stdout, stderr, exitcode>>

\* lines 36-37, 78-79: json.loads raises JSONDecodeError, continue
SkipLine ==
    /\ AtLine
    /\ ~JsonDecodes(file[ln + 1])
    /\ ln' = ln + 1
    /\ UNCHANGED <<argc, file, readable, pc, blocks, bi, events, tool_uses,
                   files_modified, markdown, stdout, stderr, exitcode>>

\* line 38: event.get on a decoded value that is no mapping
NotAnObject ==
    /\ AtLine
    /\ JsonDecodes(file[ln + 1])
    /\ ~IsDict(file[ln + 1].json)
    /\ Uncaught
    /\ UNCHANGED <<argc, file, readable, ln, blocks, bi, events, tool_uses,
                   files_modified, markdown, stdout>>

AtEntry == AtLine /\ JsonDecodes(file[ln + 1]) /\ IsDict(file[ln + 1].json)

\* lines 41-48
UserEntry ==
    /\ AtEntry
    /\ EntryType(file[ln + 1].json) = Name("user")
    /\ LET acc == UserStep(Acc, file[ln + 1].json, <<ln + 1, 0>>)
       IN  /\ Store(acc)
           /\ IF acc.raised
              THEN Uncaught /\ UNCHANGED ln
              ELSE ln' = ln + 1 /\ UNCHANGED <<pc, stderr, exitcode>>
    /\ UNCHANGED <<argc, file, readable, blocks, bi, markdown, stdout>>

\* lines 50-52: enter the loop over the content blocks
AssistantEntry ==
    /\ AtEntry
    /\ EntryType(file[ln + 1].json) = Name("assistant")
    /\ IF IsDict(Get(file[ln + 1].json, "message", EmptyDict))
       THEN /\ blocks' = ContentBlocks(file[ln + 1].json)
            /\ pc' = "blocks"
            /\ UNCHANGED <<stderr, exitcode>>
       ELSE Uncaught /\ UNCHANGED blocks
    /\ UNCHANGED <<argc, file, readable, ln, bi, events, tool_uses,
                   files_modified, markdown, stdout>>

\* line 41, 50: neither branch is taken
OtherEntry ==
    /\ AtEntry
    /\ EntryType(file[ln + 1].json) \notin {Name("user"), Name("assistant")}
    /\ ln' = ln + 1
    /\ UNCHANGED <<argc, file, readable, pc, blocks, bi, events, tool_uses,
                   files_modified, markdown, stdout, stderr, exitcode>>

\* lines 52-76: one content block
ContentBlock ==
    /\ pc = "blocks"
    /\ bi < Len(blocks)
    /\ LET acc == BlockStep(Acc, blocks[bi + 1],
                            Get(file[ln + 1].json, "timestamp", EmptyStr),
                            <<ln + 1, bi + 1>>)
       IN  /\ Store(acc)
           /\ IF acc.raised
              THEN Uncaught /\ UNCHANGED bi
              ELSE bi' = bi + 1 /\ UNCHANGED <<pc, stderr, exitcode>>
    /\ UNCHANGED <<argc, file, readable, ln, blocks, markdown, stdout>>

\* line 52: the blocks are exhausted, on to the next line
EndEntry ==
    /\ pc = "blocks"
    /\ bi = Len(blocks)
    /\ pc' = "lines"
    /\ ln' = ln + 1
    /\ blocks' = <<>>
    /\ bi' = 0
    /\ UNCHANGED <<argc, file, readable, events, tool_uses, files_modified,
                   markdown, stdout, stderr, exitcode>>

\* lines 35, 81: the file is exhausted, parse_jsonl returns
Return ==
    /\ pc = "lines"
    /\ ln = Len(file)
    /\ pc' = "render"
    /\ UNCHANGED <<argc, file, readable, ln, blocks, bi, events, tool_uses,
                   files_modified, markdown, stdout, stderr, exitcode>>

\* line 153
Render ==
    /\ pc = "render"
    /\ IF generate_markdown_raises(events)
       THEN Uncaught /\ UNCHANGED markdown
       ELSE /\ markdown' = generate_markdown(events, tool_uses, files_modified)
            /\ pc' = "print"
            /\ UNCHANGED <<stderr, exitcode>>
    /\ UNCHANGED <<argc, file, readable, ln, blocks, bi, events, tool_uses,
                   files_modified, stdout>>

\* line 154, then the interpreter exits with code 0
PrintReport ==
    /\ pc = "print"
    /\ stdout' = WriteLine(stdout, markdown)
    /\ exitcode' = <<0>>
    /\ pc' = "exited"
    /\ UNCHANGED <<argc, file, readable, ln, blocks, bi, events, tool_uses,
                   files_modified, markdown, stderr>>

Next ==
    \/ Usage
    \/ OpenFile
    \/ SkipLine
    \/ NotAnObject
    \/ UserEntry
    \/ AssistantEntry
    \/ OtherEntry
    \/ ContentBlock
    \/ EndEntry
    \/ Return
    \/ Render
    \/ PrintReport

Spec == Init /\ [][Next]_vars

-----------------------------------------------------------------------------
(* parse_jsonl as a function of the lines it is given                       *)
(* (each line with its number in the file, for the ghost src)               *)

RECURSIVE BlocksFrom(_, _, _, _, _)
BlocksFrom(acc, bs, ts, n, k) ==
    IF acc.raised \/ k > Len(bs) THEN acc
    ELSE BlocksFrom(BlockStep(acc, bs[k], ts, <<n, k>>), bs, ts, n, k + 1)

LineStep(acc, line, n) ==
    IF ~JsonDecodes(line) THEN acc
    ELSE IF ~IsDict(line.json) THEN Raised(acc)
    ELSE IF EntryType(line.json) = Name("user")
    THEN UserStep(acc, line.json, <<n, 0>>)
    ELSE IF EntryType(line.json) = Name("assistant")
    THEN (IF IsDict(Get(line.json, "message", EmptyDict))
          THEN BlocksFrom(acc, ContentBlocks(line.json),
                          Get(line.json, "timestamp", EmptyStr), n, 1)
          ELSE Raised(acc))
    ELSE acc

RECURSIVE LinesFrom(_, _, _)
LinesFrom(acc, numbered, k) ==
    IF acc.raised \/ k > Len(numbered) THEN acc
    ELSE LinesFrom(LineStep(acc, numbered[k][2], numbered[k][1]), numbered, k + 1)

parse_jsonl(numbered) == LinesFrom(Acc0, numbered, 1)

-----------------------------------------------------------------------------
(* Properties *)

Rendered == pc = "print" \/ exitcode = <<0>>

NoEventsLiteral ==
    <<[sec |-> "none", src |-> <<0, 0>>,
       text |-> <<[lit |-> "No events found in session."]>>]>>

NoValidLine == \A i \in 1..Len(file) : ~JsonDecodes(file[i])

\* C1: a readable file in which no line decodes (the empty file included)
\* never ends in an error, yields an empty record sequence, and its report is
\* exactly "No events found in session."; and whenever a report has been
\* rendered it is that literal exactly when the record sequence is empty.
C1_NoEventsReport ==
    /\ (argc = 2 /\ readable /\ NoValidLine) =>
          /\ exitcode /= <<1>>
          /\ events = <<>>
          /\ Rendered => markdown = NoEventsLiteral
          /\ stdout /= <<>> => stdout[1] = NoEventsLiteral
    /\ Rendered => (markdown = NoEventsLiteral <=> events = <<>>)

C1_Witness ==
    /\ Len(file) = 2
    /\ NoValidLine
    /\ file[1] /= file[2]
    /\ exitcode = <<0>>
    /\ stdout = <<NoEventsLiteral, EndOfLine>>

Numbered == [i \in 1..Len(file) |-> <<i, file[i]>>]

Decodable(nl) == JsonDecodes(nl[2])

AtUndecodable == pc = "lines" /\ ln < Len(file) /\ ~JsonDecodes(file[ln + 1])

\* C2: the step that meets an undecodable line changes neither the records,
\* the counter nor the file set, writes nothing, and goes on to the next
\* line; and what parse_jsonl returns for the file is what it returns for
\* the decodable lines of the file alone (and it returns for the one exactly
\* when it returns for the other).
C2_UndecodableSkipped ==
    /\ [][AtUndecodable =>
            /\ ln' = ln + 1
            /\ pc' = "lines"
            /\ UNCHANGED <<events, tool_uses, files_modified, markdown,
                           stdout, stderr, exitcode>>]_vars
    /\ [](pc = "render" =>
            Acc = parse_jsonl(SelectSeq(Numbered, Decodable)))
    /\ []((argc = 2 /\ readable /\ pc = "exited" /\ markdown = <<>>
           /\ ~generate_markdown_raises(events)) =>
            parse_jsonl(SelectSeq(Numbered, Decodable)).raised)

C2_Witness ==
    /\ pc = "render"
    /\ Len(file) = 2
    /\ ~JsonDecodes(file[1])
    /\ JsonDecodes(file[2])
    /\ Len(events) >= 2
    /\ tool_uses /= <<>>

SrcLess(a, b) == a[1] < b[1] \/ (a[1] = b[1] /\ a[2] < b[2])

InSourceOrder(seq) ==
    \A i, j \in 1..Len(seq) : i < j => SrcLess(seq[i].src, seq[j].src)

IsTimelineChunk(c) == c.sec = "timeline"

\* the records that produce a timeline line
HasTimelineLine(e) ==
    \/ e.type \in {"user", "assistant"}
    \/ e.tool \in {Name("Bash"), Name("Edit"), Name("Write"), Name("MultiEdit"),
                   Name("Read"), Name("Grep")}

\* C3: the records are in the order of their source lines (and, within one
\* entry, of their content blocks), and so are the timeline lines of the
\* report, one for each record that produces a line, whatever the record
\* types and the timestamps.
C3_InputOrder ==
    /\ InSourceOrder(events)
    /\ Rendered /\ events /= <<>> =>
         LET timeline == SelectSeq(markdown, IsTimelineChunk)
         IN  /\ InSourceOrder(timeline)
             /\ [i \in 1..Len(timeline) |-> timeline[i].src]
                  = [i \in 1..Len(SelectSeq(events, HasTimelineLine)) |->
                       SelectSeq(events, HasTimelineLine)[i].src]

EightChars(a, b, c, d, e, f) == <<a, b, ":", c, d, ":", e, f>>

\* a later line carries an earlier time, the records are of different types,
\* and both are in the timeline
C3_Witness ==
    /\ pc = "print"
    /\ Len(events) = 2
    /\ events[1].src[1] = 1
    /\ events[2].src[1] = 2
    /\ events[1].type = "tool"
    /\ events[2].type = "user"
    /\ events[1].time = EightChars("1", "0", "0", "0", "0", "0")
    /\ events[2].time = EightChars("0", "9", "5", "9", "5", "8")
    /\ Len(SelectSeq(markdown, IsTimelineChunk)) = 2

\* the fields of a tool_use block as the claim names them
BlockName(item) == IF "name" \in DOMAIN item.v THEN item.v.name ELSE Name("")

BlockInput(item) == IF "input" \in DOMAIN item.v THEN item.v.input ELSE Dict(<<>>)

BlockPath(item) ==
    IF "file_path" \in DOMAIN BlockInput(item).v
    THEN BlockInput(item).v.file_path
    ELSE Str(<<>>)

ToolNames(tu) == {tu[i].tool : i \in 1..Len(tu)}

\* a tool_use block is processed and no exception ends the run
ToolUseDone ==
    /\ pc = "blocks"
    /\ bi < Len(blocks)
    /\ IsToolUse(blocks[bi + 1])
    /\ bi' = bi + 1

\* C4: processing a tool_use block adds exactly 1 to the count of the block's
\* name and changes no other count, adds input.file_path to the file set if and
\* only if the name is Edit, Write or MultiEdit and the path is non-empty (and
\* adds nothing else), and appends exactly one tool record with the name and
\* the whole input mapping (the empty mapping if absent).
C4_ToolUseBlock ==
    [][ToolUseDone =>
         LET item == blocks[bi + 1]
         IN  /\ CountOf(tool_uses', BlockName(item))
                  = CountOf(tool_uses, BlockName(item)) + 1
             /\ \A n \in (ToolNames(tool_uses) \cup ToolNames(tool_uses'))
                           \ {BlockName(item)} :
                   CountOf(tool_uses', n) = CountOf(tool_uses, n)
             /\ files_modified' =
                  files_modified \cup
                  (IF /\ BlockName(item) \in
                           {Name("Edit"), Name("Write"), Name("MultiEdit")}
                      /\ BlockPath(item) /= Str(<<>>)
                   THEN {BlockPath(item)} ELSE {})
             /\ Len(events') = Len(events) + 1
             /\ SubSeq(events', 1, Len(events)) = events
             /\ events'[Len(events')].type = "tool"
             /\ events'[Len(events')].tool = BlockName(item)
             /\ events'[Len(events')].details = BlockInput(item)]_vars

\* the Write of /a/b/c.txt has been processed after an earlier Write
C4_Witness ==
    /\ pc = "blocks"
    /\ ln = 1
    /\ bi = 1
    /\ blocks[1] = ToolUse("Write", [file_path |-> PathC])
    /\ CountOf(tool_uses, Name("Write")) = 2
    /\ PathC \in files_modified
    /\ events[Len(events)].tool = Name("Write")
    /\ events[Len(events)].details = Dict([file_path |-> PathC])

IsFileChunk(c) == c.sec = "file"

ListedPaths == [i \in 1..Len(SelectSeq(markdown, IsFileChunk)) |->
                  SelectSeq(markdown, IsFileChunk)[i].text[2].chr]

\* C5: in a full report the Files Modified section lists every path of the
\* set exactly once, in lexicographic order; the section is there if and only
\* if the set is non-empty; the statistic is the number of distinct paths.
C5_FilesModified ==
    (Rendered /\ events /= <<>>) =>
       /\ {ListedPaths[i] : i \in 1..Len(ListedPaths)}
            = {p.v : p \in files_modified}
       /\ \A i, j \in 1..Len(ListedPaths) :
            i < j => StrLess(ListedPaths[i], ListedPaths[j])
       /\ Len(ListedPaths) = Cardinality(files_modified)
       /\ (\E k \in 1..Len(markdown) : markdown[k].sec = "files")
            <=> files_modified /= {}
       /\ \A k \in 1..Len(markdown) :
            markdown[k].sec = "stats" =>
              /\ markdown[k].text[5] = [lit |-> "- **Files modified**: "]
              /\ markdown[k].text[6] = [num |-> Cardinality(files_modified)]
       /\ \E k \in 1..Len(markdown) : markdown[k].sec = "stats"

\* three distinct paths, one of them the target of two invocations
C5_Witness ==
    /\ pc = "print"
    /\ Cardinality(files_modified) = 3
    /\ \E i, j \in 1..Len(events) :
          /\ i < j
          /\ events[i].type = "tool"
          /\ events[j].type = "tool"
          /\ events[i].details = events[j].details
          /\ events[i].tool \in FileMutatingTools
          /\ events[j].tool \in FileMutatingTools
    /\ Len(ListedPaths) = 3

\* the text the claim's rule is about, cut at limit
Cut(raw, limit) ==
    IF Len(raw) > limit THEN SubSeq(raw, 1, limit) \o <<".", ".", ".">> ELSE raw

EntryContent(n) == file[n].json.v.message.v.content

\* what a timeline chunk shows of the text, and the text it is made from
ShownUser(c) == c.text[4].chr

RawUser(c) == extract_message_text(EntryContent(c.src[1]))

ShownAssistant(c) == c.text[2].chr

RawAssistant(c) == Strip(EntryContent(c.src[1]).v[c.src[2]].v.text.v)

ShownCommand(c) ==
    c.text[2].chr \o (IF c.text[3] = [lit |-> "...U+0060\n"]
                      THEN <<".", ".", ".">> ELSE <<>>)

RawCommand(c) == EntryContent(c.src[1]).v[c.src[2]].v.input.v.command.v

\* C6: a user text is shown cut at 100, an assistant text cut at 200, a Bash
\* command cut at 80: the first so many characters and "..." when longer,
\* unchanged otherwise.
C6_Truncation ==
    (Rendered /\ events /= <<>>) =>
       \A k \in 1..Len(markdown) :
          LET c == markdown[k]
          IN  c.sec = "timeline" =>
                /\ c.text[1] = [lit |-> "\n### ["] =>
                      ShownUser(c) = Cut(RawUser(c), 100)
                /\ c.text[1] = [lit |-> "\n**Claude**: "] =>
                      ShownAssistant(c) = Cut(RawAssistant(c), 200)
                /\ c.text[1] = [lit |-> "- U+1F527 Executed: U+0060"] =>
                      ShownCommand(c) = Cut(RawCommand(c), 80)

\* a user text of 101 and an assistant text of 201 are cut, next to a
\* command of exactly 80 that is not
C6_Witness ==
    /\ pc = "print"
    /\ \E i, j, k \in 1..Len(markdown) :
          /\ markdown[i].text[1] = [lit |-> "\n### ["]
          /\ Len(RawUser(markdown[i])) = 101
          /\ Len(ShownUser(markdown[i])) = 103
          /\ markdown[j].text[1] = [lit |-> "\n**Claude**: "]
          /\ Len(RawAssistant(markdown[j])) = 201
          /\ Len(ShownAssistant(markdown[j])) = 203
          /\ markdown[k].text[1] = [lit |-> "- U+1F527 Executed: U+0060"]
          /\ Len(RawCommand(markdown[k])) = 80
          /\ ShownCommand(markdown[k]) = RawCommand(markdown[k])

UsageLiteral ==
    <<[sec |-> "usage", src |-> <<0, 0>>,
       text |-> <<[lit |-> "Usage: python parse_session.py <jsonl_file>"]>>]>>

\* C7: a run with an argument count other than one writes the usage message
\* to standard error and nothing to standard output, reads no line of any
\* file and exits with code 1.
C7_UsageOnStderr ==
    (argc /= 2 /\ pc = "exited") =>
       /\ stderr /= <<>>
       /\ stderr[1] = UsageLiteral
       /\ stdout = <<>>
       /\ ln = 0
       /\ exitcode = <<1>>

\* what the run does there: the same, the two streams exchanged
C7_UsageOnStdout ==
    (argc /= 2 /\ pc = "exited") =>
       /\ stdout = <<UsageLiteral, EndOfLine>>
       /\ stderr = <<>>
       /\ ln = 0
       /\ events = <<>>
       /\ exitcode = <<1>>

Fatal == stderr /= <<>> /\ stderr[1] = Traceback

\* C8: in every run nothing is on standard output before every line has been
\* processed and the report rendered; a run ended by an uncaught error has
\* written nothing of the report; a run that completes has written the whole
\* report exactly once and exits with code 0.
C8_NoPartialReport ==
    /\ stdout /= <<>> =>
          /\ ln = Len(file)
          /\ markdown /= <<>>
          /\ stdout = <<markdown, EndOfLine>>
    /\ Fatal => stdout = <<>> /\ exitcode = <<1>>
    /\ exitcode = <<0>> =>
          /\ stdout = <<markdown, EndOfLine>>
          /\ markdown = generate_markdown(events, tool_uses, files_modified)
          /\ ~Fatal

\* the same for the runs given exactly one argument
C8_WithOneArgument == argc = 2 => C8_NoPartialReport

\* the text of a user entry as the claim words it: a sequence gives the text
\* of its first text block as it stands
TextAsClaimed(content) ==
    IF IsText(content) THEN Strip(RemoveTags(content.v, 1))
    ELSE IF IsList(content) /\ FirstTextBlock(content) > 0
    THEN content.v[FirstTextBlock(content)].v.text.v
    ELSE <<>>

\* ... and with that text trimmed as well
TextAsAmended(content) ==
    IF IsText(content) THEN Strip(RemoveTags(content.v, 1))
    ELSE IF IsList(content) /\ FirstTextBlock(content) > 0
    THEN Strip(content.v[FirstTextBlock(content)].v.text.v)
    ELSE <<>>

AtUser == AtEntry /\ EntryType(file[ln + 1].json) = Name("user")

AtOther ==
    AtEntry /\ EntryType(file[ln + 1].json) \notin {Name("user"), Name("assistant")}

UserContent ==
    IF "message" \in DOMAIN file[ln + 1].json.v
    THEN file[ln + 1].json.v.message.v.content
    ELSE Str(<<>>)

OneUserRecordAppended ==
    /\ Len(events') = Len(events) + 1
    /\ SubSeq(events', 1, Len(events)) = events
    /\ events'[Len(events')].type = "user"

UserEntryEffect(text) ==
    /\ AtUser => UNCHANGED <<tool_uses, files_modified>>
    /\ (AtUser /\ ln' = ln + 1) =>
          IF text /= <<>> /\ ~StartsWith(text, IsRunning)
          THEN OneUserRecordAppended
          ELSE UNCHANGED events
    /\ AtOther =>
          /\ UNCHANGED <<events, tool_uses, files_modified, pc, exitcode>>
          /\ ln' = ln + 1

\* C9 as claimed: a user entry appends exactly one user record if the text of
\* its content (tags removed and trimmed for a string, the text of the first
\* text block for a sequence) is non-empty and does not begin with
\* "is running...", and none otherwise; it changes neither the counter nor the
\* file set; an entry of another type changes nothing.
C9_AsClaimed == [][UserEntryEffect(TextAsClaimed(UserContent))]_vars

\* C9 amended: the same, the text of the first text block of a sequence being
\* trimmed of surrounding whitespace like the string.
C9_UserEntry == [][UserEntryEffect(TextAsAmended(UserContent))]_vars

\* a user entry whose content is a sequence has appended its record, the
\* trimmed text of the first text block
C9_Witness ==
    /\ pc = "lines"
    /\ ln = 1
    /\ JsonDecodes(file[1])
    /\ IsDict(file[1].json)
    /\ EntryType(file[1].json) = Name("user")
    /\ "message" \in DOMAIN file[1].json.v
    /\ IsList(file[1].json.v.message.v.content)
    /\ Len(events) = 1
    /\ events[1].type = "user"
    /\ events[1].text = <<"h", "e", "l", "l", "o">>
    /\ tool_uses = <<>>

RECURSIVE SumCounts(_)
SumCounts(tu) == IF tu = <<>> THEN 0 ELSE Head(tu).count + SumCounts(Tail(tu))

IsToolRecord(e) == e.type = "tool"

ToolRecords == SelectSeq(events, IsToolRecord)

RecordsOf(n) == {i \in 1..Len(ToolRecords) : ToolRecords[i].tool = n}

\* C10: as long as no exception has ended the run, the counts sum to the
\* number of tool records, each tool's count is the number of tool records of
\* that name, every path of the file set is the file_path of a tool record of
\* Edit, Write or MultiEdit; so a non-empty counter or file set comes with a
\* non-empty record sequence, and the "No events" report hides no tool usage.
C10_AccumulatorsAgree ==
    exitcode /= <<1>> =>
       /\ SumCounts(tool_uses) = Len(ToolRecords)
       /\ \A n \in ToolNames(tool_uses) \cup ToolNames(ToolRecords) :
             CountOf(tool_uses, n) = Cardinality(RecordsOf(n))
       /\ \A i, j \in 1..Len(tool_uses) :
             tool_uses[i].tool = tool_uses[j].tool => i = j
       /\ \A p \in files_modified :
             \E i \in 1..Len(ToolRecords) :
                /\ ToolRecords[i].tool \in
                     {Name("Edit"), Name("Write"), Name("MultiEdit")}
                /\ "file_path" \in DOMAIN ToolRecords[i].details.v
                /\ ToolRecords[i].details.v.file_path = p
       /\ (tool_uses /= <<>> \/ files_modified /= {}) => events /= <<>>
       /\ (Rendered /\ markdown = NoEventsLiteral) =>
             tool_uses = <<>> /\ files_modified = {}

C10_Witness ==
    /\ pc = "print"
    /\ Len(tool_uses) >= 3
    /\ \E i \in 1..Len(tool_uses) : tool_uses[i].count = 2
    /\ Cardinality(files_modified) >= 2
    /\ Len(ToolRecords) < Len(events)

=============================================================================
